---- MODULE Spec2Model ----
(***************************************************************************)
(* Model of ue4cli's UE4BuildInterrogator (src/ue4cli/UE4BuildInterrogator.py).*)
(*                                                                         *)
(* A Python string is a sequence of tokens: "/", "\\" and "." are tokens   *)
(* of their own, every other token is a run of ordinary characters.  A     *)
(* list of strings is a sequence of such sequences.  A JSON field that may *)
(* hold a string or a list of strings is the record [str, v]: v is the     *)
(* list, or the one-element list holding the string when str is TRUE.      *)
(* os.path is the POSIX implementation.                                    *)
(***************************************************************************)
EXTENDS Integers, Sequences, FiniteSets, TLC

VARIABLES
    engineRoot,     \* self.engineRoot
    cacheShares,    \* the cache collaborator keeps and hands back the very records it was given
    cache,          \* CachedDataManager: <<>>, or <<l>> when (engineVersionHash, 'ThirdPartyLibraries') holds l
    tempDirs,       \* number of directories made by tempfile.mkdtemp that still exist
    ubtCalls,       \* number of runUBTFunc invocations so far
    call,           \* the latest call: operation, arguments and how it ended
    obtained,       \* the list _getThirdPartyLibs returned to the latest call
    modules,        \* the records of that list when the call ended
    stderr,         \* what the latest call printed with Utility.printStderr
    aggregated,     \* details before the overrides are applied (lines 31, 76-82)
    merged,         \* names whose override the latest call merged, in merge order
    details,        \* value returned by the latest call
    listed,         \* value returned by the latest list call
    previous,       \* how the latest call relates to the call before it
    paths,          \* argument of a direct _absolutePaths call
    absolute        \* its return value

vars == <<engineRoot, cacheShares, cache, tempDirs, ubtCalls, call, obtained,
          modules, stderr, aggregated, merged, details, listed, previous, paths, absolute>>

None == "None"

----------------------------------------------------------------------------
(* Bounds *)

MaxTemp == 1        \* leaked temporary directories the model follows
MaxUBT == 2         \* tool invocations the model follows
MaxPathLen == 6     \* tokens of a path handed to _absolutePaths directly

----------------------------------------------------------------------------
(* str and os.path *)

RECURSIVE replace(_, _, _)
\* str.replace(old, new): every non-overlapping occurrence, left to right
replace(s, old, new) ==
    IF Len(s) < Len(old) THEN s
    ELSE IF SubSeq(s, 1, Len(old)) = old
         THEN new \o replace(SubSeq(s, Len(old) + 1, Len(s)), old, new)
         ELSE <<Head(s)>> \o replace(Tail(s), old, new)

startswith(s, prefix) ==
    Len(s) >= Len(prefix) /\ SubSeq(s, 1, Len(prefix)) = prefix

\* tok in s
contains(s, tok) == \E i \in DOMAIN s : s[i] = tok

\* os.path.isabs (posixpath)
isabs(p) == startswith(p, <<"/">>)

\* os.path.join(a, b) (posixpath)
join(a, b) ==
    IF startswith(b, <<"/">>) THEN b
    ELSE IF a = <<>> \/ a[Len(a)] = "/" THEN a \o b
    ELSE a \o <<"/">> \o b

RECURSIVE rstrip(_)
\* str.rstrip('/')
rstrip(s) == IF s # <<>> /\ s[Len(s)] = "/" THEN rstrip(SubSeq(s, 1, Len(s) - 1)) ELSE s

\* str.rfind('/') + 1
rfind1(p) ==
    LET hits == {i \in DOMAIN p : p[i] = "/"}
    IN IF hits = {} THEN 0 ELSE CHOOSE i \in hits : \A j \in hits : j <= i

\* os.path.dirname (posixpath)
dirname(p) ==
    LET head == SubSeq(p, 1, rfind1(p))
    IN IF head # <<>> /\ (\E i \in DOMAIN head : head[i] # "/") THEN rstrip(head) ELSE head

----------------------------------------------------------------------------
(* UE4BuildInterrogator *)

engineSourceDir == <<"Engine", "/", "Source", "/">>

_absolutePaths(ps) ==
    LET slashes == [i \in DOMAIN ps |-> replace(ps[i], <<"\\">>, <<"/">>)]
        stripped == [i \in DOMAIN ps |->
                       IF startswith(slashes[i], <<".", ".", "/">>)
                       THEN replace(slashes[i], <<".", ".", "/">>, <<>>)
                       ELSE slashes[i]]
    IN [i \in DOMAIN ps |->
          IF isabs(stripped[i]) \/ ~contains(stripped[i], "/")
          THEN stripped[i]
          ELSE join(join(engineRoot, engineSourceDir), stripped[i])]

\* a str-or-list JSON value as Python iterates and measures it: a str by character
iter(value) ==
    IF value.str THEN [i \in DOMAIN value.v[1] |-> <<value.v[1][i]>>] ELSE value.v

\* transform is None or the name of the function the lambda of line 66 calls
_flatten(field, items, transform) ==
    LET RECURSIVE extend(_)
        extend(n) ==
            IF n = 0 THEN <<>>
            ELSE LET value == items[n][field]
                 IN extend(n - 1) \o (IF value.str THEN <<value.v[1]>> ELSE value.v)
        flattened == extend(Len(items))
    IN IF transform # None THEN _absolutePaths(flattened) ELSE flattened

\* resolveLibraries joining every library onto libPath, bare filename or not
resolveLibrariesAlwaysJoin(module) ==
    LET additional == iter(module["PublicAdditionalLibraries"])
        libraryPaths == iter(module["PublicLibraryPaths"])
    IN IF Len(additional) > 0 /\ Len(libraryPaths) > 0
       THEN LET libPath == _absolutePaths(libraryPaths)[1]
                slashed == [i \in DOMAIN additional |-> replace(additional[i], <<"\\">>, <<"/">>)]
                libs == [i \in DOMAIN slashed |-> join(libPath, slashed[i])]
            IN [module EXCEPT !["PublicAdditionalLibraries"] = [str |-> FALSE, v |-> libs]]
       ELSE module

\* lines 48-52: one pass of the loop over the selected modules
resolveLibraries(module) ==
    LET additional == iter(module["PublicAdditionalLibraries"])
        libraryPaths == iter(module["PublicLibraryPaths"])
    IN IF Len(additional) > 0 /\ Len(libraryPaths) > 0
       THEN LET libPath == _absolutePaths(libraryPaths)[1]
                slashed == [i \in DOMAIN additional |-> replace(additional[i], <<"\\">>, <<"/">>)]
                libs == [i \in DOMAIN slashed |->
                           IF ~contains(slashed[i], "/") THEN join(libPath, slashed[i])
                           ELSE slashed[i]]
            IN [module EXCEPT !["PublicAdditionalLibraries"] = [str |-> FALSE, v |-> libs]]
       ELSE module

\* line 66
transformOf(field) == IF field # "Definitions" THEN "_absolutePaths" ELSE None

RECURSIVE unique(_)
\* the distinct elements of a list, in order of first occurrence
unique(l) ==
    IF l = <<>> THEN <<>>
    ELSE LET front == unique(SubSeq(l, 1, Len(l) - 1))
             x == l[Len(l)]
         IN IF \E i \in DOMAIN front : front[i] = x THEN front ELSE Append(front, x)

reversed(l) == [i \in DOMAIN l |-> l[Len(l) + 1 - i]]

\* list(set(l)): Python leaves the iteration order of a set open; the model
\* follows first-occurrence order and its reverse
listOfSet(l, order) == IF order = "reverse" THEN reversed(unique(l)) ELSE unique(l)

\* prefixDirectoriesOf without the parent directories
prefixDirectoriesNoParents(directory, headerDirectories, libraryDirectories, order) ==
    listOfSet(directory \o headerDirectories \o libraryDirectories, order)

\* line 73
prefixDirectoriesOf(directory, headerDirectories, libraryDirectories, order) ==
    listOfSet(directory \o headerDirectories \o libraryDirectories
              \o [i \in DOMAIN (headerDirectories \o libraryDirectories) |->
                    dirname((headerDirectories \o libraryDirectories)[i])], order)

----------------------------------------------------------------------------
(* Inputs: JSON exports the tool can write, requests, overrides *)

Str(s) == [str |-> TRUE, v |-> <<s>>]
Lst(l) == [str |-> FALSE, v |-> l]

Module(name, type, directory, additional, libraryPaths, system, include, private, definitions) ==
    [Name |-> name, Type |-> type, Directory |-> directory,
     PublicAdditionalLibraries |-> additional, PublicLibraryPaths |-> libraryPaths,
     PublicSystemIncludePaths |-> system, PublicIncludePaths |-> include,
     PrivateIncludePaths |-> private, PublicDefinitions |-> definitions]

Core ==
    Module("Core", "Runtime", Str(<<"Runtime", "/", "Core">>), Lst(<<>>), Lst(<<>>), Lst(<<>>),
           Lst(<< <<"Runtime", "/", "Core", "/", "Public">> >>), Lst(<<>>), Lst(<< <<"CORE">> >>))

zlib ==
    Module("zlib", "EngineThirdParty", Str(<<"ThirdParty", "/", "zlib">>),
           Lst(<< <<"z", ".", "lib">>, <<"sub", "\\", "y", ".", "lib">> >>),
           Lst(<< <<".", ".", "/", "ThirdParty", "/", "zlib", "/", "lib">> >>),
           Lst(<<>>),
           Lst(<< <<".", ".", "/", "ThirdParty", "/", "zlib", "/", "include">> >>),
           Lst(<<>>),
           Lst(<< <<"WITH_ZLIB">>, <<"ZDIR", "=", "a", "/", "b">> >>))

png ==
    Module("png", "EngineThirdParty", Str(<<"/", "abs", "/", "png">>),
           Lst(<< <<"/", "abs", "/", "png", "/", "p", ".", "a">> >>),
           Lst(<<>>),
           Lst(<< <<"/", "abs", "/", "png", "/", "include">> >>),
           Str(<<".", ".", "/", "ThirdParty", "/", ".", ".", "/", "png">>),
           Lst(<< <<"ThirdParty", "/", "zlib", "/", "include">> >>),
           Lst(<< <<"WITH_PNG">> >>))

\* a module whose library fields are single strings
zlibStr ==
    Module("zlib", "EngineThirdParty", Str(<<"ThirdParty", "/", "zlib">>),
           Str(<<"z", "\\">>), Str(<<"L", "/">>), Lst(<<>>), Lst(<<>>), Lst(<<>>),
           Lst(<< <<"WITH_ZLIB">> >>))

\* result['Modules'] of an export, as the list of its values in file order
Exports == { <<Core, zlib, png>>, <<zlibStr>> }

EngineRoots == { <<"/", "opt", "/", "UE">>, <<"/", "opt", "/", "UE", "/">> }
\* (platformIdentifier, configuration) pairs the callers pass
Builds == { <<"Linux", "Development">>, <<"Win64", "Shipping">> }

RECURSIVE ListsUpTo(_, _)
ListsUpTo(S, n) ==
    IF n = 0 THEN {<<>>}
    ELSE LET shorter == ListsUpTo(S, n - 1)
         IN shorter \cup {Append(l, x) : l \in {m \in shorter : Len(m) = n - 1}, x \in S}

Details(prefixDirs, includeDirs, linkDirs, definitions, libs) ==
    [prefixDirs |-> prefixDirs, includeDirs |-> includeDirs, linkDirs |-> linkDirs,
     definitions |-> definitions, libs |-> libs]

pngOverride ==
    Details(<< <<"/", "o", "/", "png">> >>,
            << <<"/", "o", "/", "png", "/", "include">> >>,
            << <<"/", "o", "/", "png", "/", "lib">> >>,
            << <<"WITH_PNG">> >>,
            << <<"/", "o", "/", "png", "/", "lib", "/", "png", ".", "a">> >>)

sslOverride ==
    Details(<< <<"/", "o", "/", "ssl">>, <<"/", "o">> >>,
            << <<"/", "o", "/", "ssl">> >>, <<>>, << <<"WITH_SSL">> >>, << <<"ssl">> >>)

NoOverrides == [lib \in {} |-> pngOverride]

pngOnly == [lib \in {"png"} |-> pngOverride]
pngAndSsl == [lib \in {"png", "ssl"} |-> IF lib = "png" THEN pngOverride ELSE sslOverride]

\* (libraries, libOverrides) pairs the callers pass; "ssl" names no module
Requests ==
    { <<<<"zlib">>, NoOverrides>>,
      <<<<"zlib", "png">>, NoOverrides>>,
      <<<<"ssl", "zlib">>, NoOverrides>>,
      <<<<"ssl">>, NoOverrides>>,
      <<<<"png">>, pngOnly>>,
      <<<<"png", "png">>, pngOnly>>,
      <<<<"ssl", "png">>, pngAndSsl>>,
      <<<<"zlib", "png", "ssl">>, pngOnly>> }

\* what running the tool and reading its export can do in one call
ToolRuns ==
    [outcome : {"UBTError", "ReadError", "JSONError"}, export : {<<>>}, rmtree : {"ok"}]
    \cup [outcome : {"ok"}, export : Exports, rmtree : {"ok", "fails"}]

\* the choices that matter to a call: none when the tool is not reached
RunsWhen(reached) == IF reached THEN ToolRuns ELSE {CHOOSE run \in ToolRuns : TRUE}

SetOrders == {"first", "reverse"}

----------------------------------------------------------------------------
(* Collaborators *)

NoDetails == Details(<<>>, <<>>, <<>>, <<>>, <<>>)

RECURSIVE unionExtend(_, _)
\* one field of ThirdPartyLibraryDetails.merge
unionExtend(mine, theirs) ==
    IF theirs = <<>> THEN mine
    ELSE unionExtend(IF \E i \in DOMAIN mine : mine[i] = Head(theirs)
                     THEN mine ELSE Append(mine, Head(theirs)),
                     Tail(theirs))

\* ThirdPartyLibraryDetails.merge
merge(self, other) == [f \in DOMAIN self |-> unionExtend(self[f], other[f])]

----------------------------------------------------------------------------
(* Module retrieval *)

\* _getThirdPartyLibs without the cache lookup of lines 124-126
_getThirdPartyLibsUncached(platformIdentifier, configuration, run) ==
    LET thirdparty == SelectSeq(run.export, LAMBDA m : m["Type"] = "EngineThirdParty")
        miss == [hit |-> FALSE, tempCreated |-> TRUE, invoked |-> TRUE]
    IN IF run.outcome # "ok"
       THEN miss @@ [raised |-> run.outcome, tempLeft |-> TRUE, rmtreeFailed |-> FALSE,
                     cache |-> cache, ret |-> <<>>]
       ELSE miss @@ [raised |-> None, tempLeft |-> (run.rmtree = "fails"),
                     rmtreeFailed |-> (run.rmtree = "fails"),
                     cache |-> <<thirdparty>>, ret |-> thirdparty]

\* One call of _getThirdPartyLibs from the current state.  run says what the
\* tool, the file read, the JSON parse and shutil.rmtree do when reached.
_getThirdPartyLibs(platformIdentifier, configuration, run) ==
    LET cachedList == IF cache = <<>> THEN None ELSE cache[1]
        thirdparty == SelectSeq(run.export, LAMBDA m : m["Type"] = "EngineThirdParty")
        miss == [hit |-> FALSE, tempCreated |-> TRUE, invoked |-> TRUE]
    IN IF cache # <<>>
       THEN [hit |-> TRUE, tempCreated |-> FALSE, invoked |-> FALSE,
             raised |-> None, tempLeft |-> FALSE, rmtreeFailed |-> FALSE,
             cache |-> cache, ret |-> cachedList]
       ELSE IF run.outcome # "ok"
       THEN \* line 134 or line 137 raises: lines 144-150 are not reached
            miss @@ [raised |-> run.outcome, tempLeft |-> TRUE, rmtreeFailed |-> FALSE,
                     cache |-> cache, ret |-> <<>>]
       ELSE miss @@ [raised |-> None, tempLeft |-> (run.rmtree = "fails"),
                     rmtreeFailed |-> (run.rmtree = "fails"),
                     cache |-> <<thirdparty>>, ret |-> thirdparty]

----------------------------------------------------------------------------
(* interrogate *)

\* libModulesOf that sends every requested name to module retrieval
libModulesAll(libraries, libOverrides) == libraries

\* line 28
libModulesOf(libraries, libOverrides) ==
    SelectSeq(libraries, LAMBDA lib : lib \notin DOMAIN libOverrides)

\* line 38
selected(list, libModules) ==
    SelectSeq(list, LAMBDA m : \E i \in DOMAIN libModules : libModules[i] = m["Name"])

\* unsupportedOf that lists every requested module name, matched or not
unsupportedOfAll(mods, libModules) ==
    [i \in DOMAIN libModules |-> <<"\"", libModules[i], "\"">>]

\* lines 41-42
unsupportedOf(mods, libModules) ==
    LET wanted == SelectSeq(libModules, LAMBDA m : ~\E i \in DOMAIN mods : mods[i]["Name"] = m)
    IN [i \in DOMAIN wanted |-> <<"\"", wanted[i], "\"">>]

RECURSIVE joinWith(_, _)
\* sep.join(l)
joinWith(sep, l) ==
    IF l = <<>> THEN <<>>
    ELSE IF Len(l) = 1 THEN l[1]
    ELSE l[1] \o sep \o joinWith(sep, Tail(l))

\* lines 43-44: what the call prints
warningsOf(unsupported) ==
    IF Len(unsupported) > 0
    THEN << <<"Warning: unsupported libraries ">> \o joinWith(<<",">>, unsupported) >>
    ELSE <<>>

\* lines 47-52 over a list whose records are shared with `mods`
resolved(list, libModules) ==
    [i \in DOMAIN list |->
        IF \E j \in DOMAIN libModules : libModules[j] = list[i]["Name"]
        THEN resolveLibraries(list[i]) ELSE list[i]]

\* lines 55-82, over the selected modules after lines 47-52
aggregate(mods, order) ==
    LET flattened == [field \in {"Directory", "PublicAdditionalLibraries", "PublicLibraryPaths",
                                 "PublicSystemIncludePaths", "PublicIncludePaths",
                                 "PrivateIncludePaths", "PublicDefinitions"} |->
                         _flatten(field, mods, transformOf(field))]
        libraryDirectories == flattened["PublicLibraryPaths"]
        headerDirectories == flattened["PublicSystemIncludePaths"]
                             \o flattened["PublicIncludePaths"]
                             \o flattened["PrivateIncludePaths"]
        prefixDirectories == prefixDirectoriesOf(flattened["Directory"], headerDirectories,
                                                 libraryDirectories, order)
    IN Details(prefixDirectories, headerDirectories, libraryDirectories,
               flattened["PublicDefinitions"], flattened["PublicAdditionalLibraries"])

\* overridesToApply walking the request backwards
overridesToApplyReversed(libraries, libOverrides) ==
    reversed(SelectSeq(libraries, LAMBDA lib : lib \in DOMAIN libOverrides))

\* line 85, as the names whose Override is looked up
overridesToApply(libraries, libOverrides) ==
    SelectSeq(libraries, LAMBDA lib : lib \in DOMAIN libOverrides)

RECURSIVE applyOverrides(_, _, _)
\* lines 86-87
applyOverrides(result, names, libOverrides) ==
    IF names = <<>> THEN result
    ELSE applyOverrides(merge(result, libOverrides[Head(names)]), Tail(names), libOverrides)

\* the body of interrogate from the current state: every local it computes
interrogate(platformIdentifier, configuration, libraries, libOverrides, run, order) ==
    LET libModules == libModulesOf(libraries, libOverrides)
        retrieved == Len(libModules) > 0
        got == IF retrieved THEN _getThirdPartyLibs(platformIdentifier, configuration, run)
               ELSE [hit |-> FALSE, tempCreated |-> FALSE, invoked |-> FALSE,
                     raised |-> None, tempLeft |-> FALSE, rmtreeFailed |-> FALSE,
                     cache |-> cache, ret |-> <<>>]
        returned == got.raised = None
        list == IF retrieved /\ returned THEN got.ret ELSE <<>>
        after == resolved(list, libModules)
        mods == selected(after, libModules)
        unsupported == unsupportedOf(mods, libModules)
        base == IF retrieved /\ returned THEN aggregate(mods, order) ELSE NoDetails
        names == overridesToApply(libraries, libOverrides)
    IN [retrieved |-> retrieved, got |-> got, returned |-> returned,
        obtained |-> list,
        modules |-> after,
        cache |-> IF retrieved /\ returned /\ cacheShares THEN <<after>> ELSE got.cache,
        stderr |-> IF retrieved /\ returned THEN warningsOf(unsupported) ELSE <<>>,
        aggregated |-> base,
        merged |-> IF returned THEN names ELSE <<>>,
        details |-> IF returned THEN applyOverrides(base, names, libOverrides) ELSE NoDetails]

----------------------------------------------------------------------------
(* list *)

\* the order of str on the names that occur
nameOrder == <<"Core", "png", "ssl", "zlib">>
rank(name) == CHOOSE i \in DOMAIN nameOrder : nameOrder[i] = name

RECURSIVE sorted(_)
sorted(l) ==
    IF l = <<>> THEN <<>>
    ELSE LET least == CHOOSE i \in DOMAIN l : \A j \in DOMAIN l : rank(l[i]) <= rank(l[j])
         IN <<l[least]>> \o sorted(SubSeq(l, 1, least - 1) \o SubSeq(l, least + 1, Len(l)))

----------------------------------------------------------------------------
(* State machine *)

NoCall ==
    [op |-> None, platformIdentifier |-> None, configuration |-> None, libraries |-> <<>>,
     libOverrides |-> NoOverrides, raised |-> None, retrieved |-> FALSE, hit |-> FALSE,
     tempCreated |-> FALSE, tempLeft |-> FALSE, rmtreeFailed |-> FALSE, invoked |-> FALSE]

\* the interrogator after __init__, before any call
Constructed ==
    /\ engineRoot \in EngineRoots
    /\ cacheShares \in BOOLEAN
    /\ cache = <<>>
    /\ tempDirs = 0
    /\ ubtCalls = 0
    /\ call = NoCall
    /\ obtained = <<>>
    /\ modules = <<>>
    /\ stderr = <<>>
    /\ aggregated = NoDetails
    /\ merged = <<>>
    /\ details = NoDetails
    /\ listed = <<>>
    /\ previous = [same |-> FALSE, otherBuild |-> FALSE, populated |-> FALSE, details |-> NoDetails]

Init ==
    /\ Constructed
    /\ paths = <<>>
    /\ absolute = <<>>

\* UE4BuildInterrogator.list
List ==
    \E build \in Builds, run \in RunsWhen(cache = <<>>) :
        \E platformIdentifier \in {build[1]}, configuration \in {build[2]} :
        \E got \in {_getThirdPartyLibs(platformIdentifier, configuration, run)} :
           /\ got.invoked => ubtCalls < MaxUBT
           /\ got.tempLeft => tempDirs < MaxTemp
           /\ cache' = got.cache
           /\ tempDirs' = tempDirs + (IF got.tempLeft THEN 1 ELSE 0)
           /\ ubtCalls' = ubtCalls + (IF got.invoked THEN 1 ELSE 0)
           /\ call' = [op |-> "list", platformIdentifier |-> platformIdentifier,
                       configuration |-> configuration, libraries |-> <<>>,
                       libOverrides |-> NoOverrides, raised |-> got.raised, retrieved |-> TRUE,
                       hit |-> got.hit, tempCreated |-> got.tempCreated,
                       tempLeft |-> got.tempLeft, rmtreeFailed |-> got.rmtreeFailed,
                       invoked |-> got.invoked]
           /\ obtained' = got.ret
           /\ modules' = got.ret
           /\ listed' = IF got.raised = None
                        THEN sorted([i \in DOMAIN got.ret |-> got.ret[i]["Name"]])
                        ELSE <<>>
           /\ stderr' = <<>>
           /\ aggregated' = NoDetails
           /\ merged' = <<>>
           /\ details' = NoDetails
           /\ previous' = [same |-> FALSE,
                           otherBuild |-> /\ call.op # None
                                          /\ <<call.platformIdentifier, call.configuration>>
                                             # <<platformIdentifier, configuration>>,
                           populated |-> call.invoked /\ call.raised = None,
                           details |-> NoDetails]
           /\ UNCHANGED <<engineRoot, cacheShares, paths, absolute>>

\* UE4BuildInterrogator.interrogate
Interrogate ==
    \E build \in Builds, request \in Requests :
        \E platformIdentifier \in {build[1]}, configuration \in {build[2]},
           libraries \in {request[1]}, libOverrides \in {request[2]} :
        \E run \in RunsWhen(cache = <<>> /\ Len(libModulesOf(libraries, libOverrides)) > 0),
           order \in (IF Len(libModulesOf(libraries, libOverrides)) > 0
                      THEN SetOrders ELSE {"first"}) :
        \E r \in {interrogate(platformIdentifier, configuration, libraries, libOverrides,
                              run, order)} :
        \E same \in {/\ call.op = "interrogate"
                      /\ call.raised = None
                      /\ r.returned
                      /\ call.platformIdentifier = platformIdentifier
                      /\ call.configuration = configuration
                      /\ call.libraries = libraries
                      /\ call.libOverrides = libOverrides} :
           /\ r.got.invoked => ubtCalls < MaxUBT
           /\ r.got.tempLeft => tempDirs < MaxTemp
           /\ cache' = r.cache
           /\ tempDirs' = tempDirs + (IF r.got.tempLeft THEN 1 ELSE 0)
           /\ ubtCalls' = ubtCalls + (IF r.got.invoked THEN 1 ELSE 0)
           /\ call' = [op |-> "interrogate", platformIdentifier |-> platformIdentifier,
                       configuration |-> configuration, libraries |-> libraries,
                       libOverrides |-> libOverrides, raised |-> r.got.raised,
                       retrieved |-> r.retrieved, hit |-> r.got.hit,
                       tempCreated |-> r.got.tempCreated, tempLeft |-> r.got.tempLeft,
                       rmtreeFailed |-> r.got.rmtreeFailed, invoked |-> r.got.invoked]
           /\ obtained' = r.obtained
           /\ modules' = r.modules
           /\ stderr' = r.stderr
           /\ aggregated' = r.aggregated
           /\ merged' = r.merged
           /\ details' = r.details
           /\ listed' = <<>>
           /\ previous' = [same |-> same,
                           otherBuild |-> /\ call.op # None
                                          /\ <<call.platformIdentifier, call.configuration>>
                                             # <<platformIdentifier, configuration>>,
                           populated |-> call.invoked /\ call.raised = None,
                           details |-> IF same THEN details ELSE NoDetails]
           /\ UNCHANGED <<engineRoot, cacheShares, paths, absolute>>

Next == List \/ Interrogate

Spec == Init /\ [][Next]_vars

\* the path strings handed to _absolutePaths directly
PathStrings == ListsUpTo({"/", "\\", ".", "a"}, MaxPathLen)

\* a caller about to hand one path to _absolutePaths
InitPaths ==
    /\ Constructed
    /\ \E p \in PathStrings : paths = <<p>>
    /\ absolute = <<>>

\* the direct call of _absolutePaths
AbsolutePaths ==
        /\ absolute = <<>>
        /\ absolute' = _absolutePaths(paths)
        /\ UNCHANGED paths
        /\ UNCHANGED <<engineRoot, cacheShares, cache, tempDirs, ubtCalls, call,
                       obtained, modules, stderr, aggregated, merged, details, listed, previous>>

NextPaths == AbsolutePaths

SpecPaths == InitPaths /\ [][NextPaths]_vars

----------------------------------------------------------------------------
(* Properties *)

Range(l) == {l[i] : i \in DOMAIN l}
Count(l, x) == Cardinality({i \in DOMAIN l : l[i] = x})
Fields == {"prefixDirs", "includeDirs", "linkDirs", "definitions", "libs"}
Returned == call.op = "interrogate" /\ call.raised = None

\* C1: a call that created a temporary directory and whose removal did not
\* fail ends with the directory gone, on every exit path.
C1_TempDirRemovedOnEveryExit ==
    (call.tempCreated /\ ~call.rmtreeFailed) => ~call.tempLeft

\* C2: once the cache holds the third-party list, a call invokes the tool
\* zero times, a module retrieval returns the cached list as it is, and the
\* entry stays; the tool is invoked only by a call that found no entry.
C2_CacheShortCircuits ==
    [][/\ cache # <<>> =>
            /\ ubtCalls' = ubtCalls
            /\ cache' # <<>>
            /\ call'.retrieved => (call'.hit /\ call'.raised = None /\ obtained' = cache[1])
       /\ call'.invoked => (cache = <<>> /\ call'.retrieved)]_vars

C2_Witness ==
    /\ call.op = "interrogate"
    /\ call.hit
    /\ previous.populated
    /\ previous.otherBuild
    /\ ubtCalls = 1

\* C3: without overrides, the definitions of the result are the
\* PublicDefinitions strings of the selected modules, concatenated in module
\* order, each string unaltered.
C3_DefinitionsUnaltered ==
    (Returned /\ call.retrieved /\ DOMAIN call.libOverrides = {}) =>
        details.definitions =
            _flatten("PublicDefinitions",
                     selected(obtained, libModulesOf(call.libraries, call.libOverrides)), None)

\* C4: _absolutePaths maps p to p with '\' replaced by '/', exactly one
\* leading '../' removed, then unchanged when absolute or without '/', and
\* otherwise prefixed with engineRoot joined with 'Engine/Source/'.
C4_StripsOneLeadingMarker ==
    \A i \in DOMAIN absolute :
        LET slashes == replace(paths[i], <<"\\">>, <<"/">>)
            stripped == IF startswith(slashes, <<".", ".", "/">>)
                        THEN SubSeq(slashes, 4, Len(slashes)) ELSE slashes
        IN absolute[i] = IF isabs(stripped) \/ ~contains(stripped, "/") THEN stripped
                         ELSE join(join(engineRoot, engineSourceDir), stripped)

\* C5 as stated: every requested name that has an override is merged exactly
\* once, in request order, after the module-derived aggregation.
C5_EachOverrideMergedOnce ==
    Returned =>
        /\ \A lib \in Range(call.libraries) \cap DOMAIN call.libOverrides : Count(merged, lib) = 1
        /\ Range(merged) = Range(call.libraries) \cap DOMAIN call.libOverrides

\* C5 amended: every occurrence of an overridden name in the request is merged
\* once (so a name listed once is merged exactly once), in request order, into
\* the module-derived aggregation.
C5_OverrideMergedPerOccurrence ==
    Returned =>
        /\ \A lib \in Range(call.libraries) \cup Range(merged) :
              Count(merged, lib) = IF lib \in DOMAIN call.libOverrides
                                   THEN Count(call.libraries, lib) ELSE 0
        /\ \A i, j \in DOMAIN merged :
              i < j => \E a, b \in DOMAIN call.libraries :
                          a < b /\ call.libraries[a] = merged[i] /\ call.libraries[b] = merged[j]
        /\ \A f \in Fields :
              Range(details[f]) =
                  Range(aggregated[f])
                  \cup UNION {Range(call.libOverrides[lib][f]) : lib \in Range(merged)}
        /\ \A f \in Fields : SubSeq(details[f], 1, Len(aggregated[f])) = aggregated[f]

C5_Witness ==
    /\ Returned
    /\ call.libraries = <<"png", "png">>
    /\ merged = <<"png", "png">>
    /\ details = pngOverride

\* the selected modules of the latest call, as obtained
Matched == selected(obtained, libModulesOf(call.libraries, call.libOverrides))

NoDuplicates(l) == \A i, j \in DOMAIN l : l[i] = l[j] => i = j

\* C6 as stated: prefixDirs of every returned result contains every selected
\* module's directory, every entry of includeDirs and linkDirs and the parent
\* of each, and holds no duplicate.
C6_PrefixDirsCoverResult ==
    Returned =>
        /\ \A i \in DOMAIN Matched :
              _absolutePaths(Matched[i]["Directory"].v)[1] \in Range(details.prefixDirs)
        /\ \A e \in Range(details.includeDirs) \cup Range(details.linkDirs) :
              e \in Range(details.prefixDirs) /\ dirname(e) \in Range(details.prefixDirs)
        /\ NoDuplicates(details.prefixDirs)

\* C6 amended: prefixDirs of every returned result contains every selected
\* module's directory, every entry of includeDirs and linkDirs that comes from
\* the selected modules and the parent of each, and holds no duplicate; entries
\* that only an Override contributes are covered only by that Override's own
\* prefixDirs.
C6_PrefixDirsCoverModules ==
    Returned =>
        /\ \A i \in DOMAIN Matched :
              _absolutePaths(Matched[i]["Directory"].v)[1] \in Range(details.prefixDirs)
        /\ \A e \in Range(aggregated.includeDirs) \cup Range(aggregated.linkDirs) :
              e \in Range(details.prefixDirs) /\ dirname(e) \in Range(details.prefixDirs)
        /\ \A e \in Range(details.includeDirs) \cup Range(details.linkDirs) :
              \/ e \in Range(details.prefixDirs) /\ dirname(e) \in Range(details.prefixDirs)
              \/ \E lib \in Range(merged) :
                    e \in Range(call.libOverrides[lib].includeDirs)
                          \cup Range(call.libOverrides[lib].linkDirs)
        /\ NoDuplicates(details.prefixDirs)

C6_Witness ==
    /\ Returned
    /\ Len(Matched) > 0
    /\ merged # <<>>
    /\ aggregated.includeDirs # <<>>
    /\ aggregated.linkDirs # <<>>
    /\ \E e \in Range(details.includeDirs) : e \notin Range(details.prefixDirs)

\* C7: a call whose requested names all have an override retrieves no
\* modules and invokes no tool, whatever the cache holds, and returns the
\* empty result with the requested overrides merged in; for a single name the
\* result holds exactly that Override's contents.
C7_OverrideOnlySkipsRetrieval ==
    [][(call'.op = "interrogate" /\ Range(call'.libraries) \subseteq DOMAIN call'.libOverrides) =>
          /\ ~call'.retrieved /\ ~call'.invoked /\ ~call'.tempCreated
          /\ call'.raised = None
          /\ ubtCalls' = ubtCalls /\ cache' = cache /\ tempDirs' = tempDirs
          /\ stderr' = <<>>
          /\ \A f \in Fields :
                Range(details'[f]) =
                    UNION {Range(call'.libOverrides[lib][f]) : lib \in Range(call'.libraries)}
          /\ Cardinality(Range(call'.libraries)) = 1 =>
                \A lib \in Range(call'.libraries) : details' = call'.libOverrides[lib]]_vars

C7_Witness ==
    /\ Returned
    /\ call.libraries = <<"png">>
    /\ call.libOverrides = pngOnly
    /\ cache = <<>>
    /\ ubtCalls = 0
    /\ details = pngOverride

\* names of the latest request that need a module and have none
Unmatched ==
    {lib \in Range(libModulesOf(call.libraries, call.libOverrides)) :
        \A i \in DOMAIN obtained : obtained[i]["Name"] # lib}

\* what one selected module contributes to field f of the result
Contribution(m, f) == Range(aggregate(<<resolveLibraries(m)>>, "first")[f])

C9_Idempotent ==
    previous.same => \A f \in Fields : Range(details[f]) = Range(previous.details[f])

C9_Witness ==
    /\ previous.same
    /\ previous.populated
    /\ cacheShares
    /\ call.hit
    /\ \E i \in DOMAIN obtained : obtained[i] = resolveLibraries(zlib)
    /\ details.libs # <<>>

\* C10: after an interrogate call every record of the list obtained from
\* module retrieval has the value it had when obtained, and so has the cache entry.
C10_ModulesReadOnly ==
    (Returned /\ call.retrieved) =>
        /\ modules = obtained
        /\ cache = <<obtained>>

====
